---- MODULE Spec2Model ----
(***************************************************************************)
(* A model of download.py, the CivitAI downloader: token resolution,       *)
(* the batch loop of main, and download_file (request with automatic       *)
(* redirects, filename resolution, chunked streaming to disk, extraction). *)
(*                                                                         *)
(* Python strings are sequences of one-character strings, so that split,   *)
(* strip, endswith and "in" are computed as Python computes them.          *)
(***************************************************************************)
EXTENDS Integers, Sequences, FiniteSets, TLC

\* ------------------------------------------------------------------------
\* Bounds of the model
\* ------------------------------------------------------------------------

\* Largest response body, in bytes.
MaxBody == 3

\* Longest chain of redirects the server side answers with.
MaxRedirects == 2

\* ------------------------------------------------------------------------
\* Program constants
\* ------------------------------------------------------------------------

\* CHUNK_SIZE (1638400 in the source), scaled down to bodies of a few bytes.
CHUNK_SIZE == 2

\* ------------------------------------------------------------------------
\* Python values
\* ------------------------------------------------------------------------

\* Python's None, kept apart from every string (a string holds only
\* one-character elements).
None == <<"<None>">>

\* Characters str.strip() removes (the whitespace of the model's alphabet).
WHITESPACE == {" ", "\n"}

Min(a, b) == IF a < b THEN a ELSE b

\* s[i:] for a 1-based index i.
Tail_(s, i) == SubSeq(s, i, Len(s))

\* s.startswith(sub, i - 1)
MatchesAt(s, sub, i) ==
    /\ i >= 1
    /\ i + Len(sub) - 1 <= Len(s)
    /\ SubSeq(s, i, i + Len(sub) - 1) = sub

\* s.find(sub) + 1 : the least 1-based index where sub occurs, 0 when absent.
Find(s, sub) ==
    IF \E i \in 1..Len(s) : MatchesAt(s, sub, i)
    THEN CHOOSE i \in 1..Len(s) :
            /\ MatchesAt(s, sub, i)
            /\ \A j \in 1..(i - 1) : ~MatchesAt(s, sub, j)
    ELSE 0

\* sub in s
Contains(s, sub) == Find(s, sub) # 0

\* s.split(sep), sep non-empty: the pieces between the occurrences of sep,
\* scanned left to right; always at least one piece.
RECURSIVE Split(_, _)
Split(s, sep) ==
    LET k == Find(s, sep) IN
    IF k = 0 THEN <<s>>
    ELSE <<SubSeq(s, 1, k - 1)>> \o Split(Tail_(s, k + Len(sep)), sep)

\* s.lstrip(chars)
RECURSIVE LStrip(_, _)
LStrip(s, chars) ==
    IF s # <<>> /\ Head(s) \in chars THEN LStrip(Tail(s), chars) ELSE s

\* s.rstrip(chars)
RECURSIVE RStrip(_, _)
RStrip(s, chars) ==
    IF s # <<>> /\ s[Len(s)] \in chars
    THEN RStrip(SubSeq(s, 1, Len(s) - 1), chars)
    ELSE s

\* s.strip(chars)
StripChars(s, chars) == RStrip(LStrip(s, chars), chars)

\* s.strip()
Strip(s) == StripChars(s, WHITESPACE)

\* s.endswith(suffix)
EndsWith(s, suffix) ==
    /\ Len(suffix) <= Len(s)
    /\ SubSeq(s, Len(s) - Len(suffix) + 1, Len(s)) = suffix

\* Python truthiness of an optional string: None and "" are false.
Truthy(s) == s # None /\ s # <<>>

\* os.path.join(a, b) on POSIX.
PathJoin(a, b) ==
    IF b # <<>> /\ Head(b) = "/" THEN b
    ELSE IF a = <<>> \/ a[Len(a)] = "/" THEN a \o b
    ELSE a \o <<"/">> \o b

\* ------------------------------------------------------------------------
\* Literals of the program and of its environment
\* ------------------------------------------------------------------------

FILENAME_EQ == <<"f","i","l","e","n","a","m","e","=">>
DOT_ZIP == <<".","z","i","p">>
HTTPS == <<"h","t","t","p","s">>
HTTP == <<"h","t","t","p">>
API_HOST == <<"c","i","v","i","t","a","i",".","c","o","m">>
CDN_HOST == <<"c","d","n">>
API_PATH == <<"/","a","p","i","/","d","o","w","n","l","o","a","d","/","m","o","d","e","l","s">>

\* A URL, kept by its parts; UrlString renders it as requests reports r.url.
Url(scheme, host, path, query) ==
    [scheme |-> scheme, host |-> host, path |-> path, query |-> query]

UrlString(u) ==
    u.scheme \o <<":","/","/">> \o u.host \o u.path
      \o (IF u.query = None THEN <<>> ELSE <<"?">> \o u.query)

\* url = f"{CIVITAI_BASE_URL}/{model_id}"
ModelUrl(model_id) == Url(HTTPS, API_HOST, API_PATH \o <<"/">> \o model_id, None)

\* ------------------------------------------------------------------------
\* Inputs of a run: the command line, the environment, the token file
\* ------------------------------------------------------------------------

\* Values of the model_id argument: one identifier; identifiers with blanks
\* and an empty entry between the commas; three identifiers; no identifier.
ModelIdArgs ==
    { <<"7">>,
      <<" ","7",","," ",",","8"," ">>,
      <<"7",",","8",",","9">>,
      <<",">> }

\* Values of the output_path argument.
OutputPaths == { <<"o","u","t">> }

\* Values of the token environment variable (None: unset).
EnvTokens == { None, <<>>, <<"e">> }

\* Contents of TOKEN_FILE (None: the file cannot be opened or read).
TokenFiles == { None, <<"\n">>, <<" ","f","\n">> }

\* What the user types at the prompt.
PromptInputs == { <<"p">> }

VARIABLES
    pc,                 \* position of the process in main / download_file
    exit_status,        \* exit status of the process, -1 while it runs
    argv_model_id,      \* args.model_id
    output_path,        \* args.output_path
    argv_no_extract,    \* whether the command line carries --no-extract
    env_token,          \* os.environ[DEFAULT_ENV_NAME], None when unset
    token_file,         \* content of TOKEN_FILE, None when unreadable
    token_writes,       \* number of store_token calls that wrote the file
    get_token_calls,    \* number of get_token calls
    got,                \* what get_token returned
    token,              \* main's token
    model_ids,          \* main's model_ids
    i,                  \* 1-based position of the for loop in model_ids
    attempts,           \* the model_id of every download_file call, in order
    last_outcome,       \* how the last download_file call ended: "none",
                        \* "returned", or the exception it raised
    output_dir_exists,  \* whether args.output_path is an existing directory
    req,                \* the request on the wire: its url and Authorization
    hops,               \* redirects followed so far for this request
    content_disposition,\* r.headers.get("Content-Disposition")
    r_url,              \* r.url, the final url
    filename,           \* download_file's filename
    output_file,        \* download_file's output_file
    total_size,         \* download_file's total_size
    body,               \* the response body the server sends
    f_content,          \* content of output_file on disk, None when absent
    downloaded,         \* download_file's downloaded
    writes,             \* number of f.write calls
    stream_pos,         \* bytes of the body iter_content has delivered
    full_chunks,        \* every chunk delivered so far filled chunk_size
    extract_status      \* "none", "ok" or "failed" for the last download

cli_vars == <<argv_model_id, output_path, argv_no_extract, env_token>>
token_vars == <<token_file, token_writes, get_token_calls, got, token>>
loop_vars == <<model_ids, i, attempts, last_outcome>>
http_vars == <<req, hops, content_disposition, r_url, filename, output_file,
               total_size, body>>
file_vars == <<f_content, downloaded, writes, stream_pos, full_chunks,
               extract_status>>

vars == <<pc, exit_status, cli_vars, token_vars, loop_vars, output_dir_exists,
          http_vars, file_vars>>

\* No request is on the wire.
NoRequest == [url |-> None, auth |-> None]

Init ==
    /\ pc = "get_args"
    /\ exit_status = -1
    /\ argv_model_id \in ModelIdArgs
    /\ output_path \in OutputPaths
    /\ argv_no_extract \in BOOLEAN
    /\ env_token \in EnvTokens
    /\ token_file \in TokenFiles
    /\ token_writes = 0
    /\ get_token_calls = 0
    /\ got = None
    /\ token = None
    /\ model_ids = <<>>
    /\ i = 1
    /\ attempts = <<>>
    /\ last_outcome = "none"
    /\ output_dir_exists \in BOOLEAN
    /\ req = NoRequest
    /\ hops = 0
    /\ content_disposition = None
    /\ r_url = None
    /\ filename = None
    /\ output_file = None
    /\ total_size = 0
    /\ body = <<>>
    /\ f_content = None
    /\ downloaded = 0
    /\ writes = 0
    /\ stream_pos = 0
    /\ full_chunks = TRUE
    /\ extract_status = "none"

\* ------------------------------------------------------------------------
\* get_args
\* ------------------------------------------------------------------------

\* The parser declares two positionals and no option: argparse rejects any
\* other argument with a usage error and exit status 2.
GetArgs ==
    /\ pc = "get_args"
    /\ IF argv_no_extract
       THEN pc' = "exit" /\ exit_status' = 2
       ELSE pc' = "get_token" /\ exit_status' = exit_status
    /\ UNCHANGED <<cli_vars, token_vars, loop_vars, output_dir_exists,
                   http_vars, file_vars>>

\* ------------------------------------------------------------------------
\* Token store
\* ------------------------------------------------------------------------

\* get_token reading the file before the environment variable.
get_token_file_first(env, file) ==
    IF file # None /\ Truthy(Strip(file)) THEN Strip(file)
    ELSE IF Truthy(env) THEN env
    ELSE None

\* get_token(): the environment variable when it is truthy, else the
\* stripped content of the file, else None when reading raises.
get_token(env, file) ==
    IF Truthy(env) THEN env
    ELSE IF file # None THEN Strip(file)
    ELSE None

\* A main that prompts whatever get_token returned.
NeedsPromptAlways(t) == TRUE

\* main, line 133: "if not token".
NeedsPrompt(t) == ~Truthy(t)

\* main, lines 131-133: token = get_token(); if not token: prompt.
GetToken ==
    /\ pc = "get_token"
    /\ got' = get_token(env_token, token_file)
    /\ token' = got'
    /\ get_token_calls' = get_token_calls + 1
    /\ pc' = IF NeedsPrompt(token') THEN "prompt" ELSE "split"
    /\ UNCHANGED <<exit_status, cli_vars, token_file, token_writes, loop_vars,
                   output_dir_exists, http_vars, file_vars>>

\* prompt_for_civitai_token(): input(), store_token(token), return token.
PromptOk ==
    /\ pc = "prompt"
    /\ \E typed \in PromptInputs :
          /\ token_file' = typed
          /\ token' = typed
    /\ token_writes' = token_writes + 1
    /\ pc' = "split"
    /\ UNCHANGED <<exit_status, cli_vars, get_token_calls, got, loop_vars,
                   output_dir_exists, http_vars, file_vars>>

\* input() raises EOFError on a closed standard input, or store_token raises
\* OSError before anything is written: nothing catches it, main ends with a
\* traceback and exit status 1.
PromptFails ==
    /\ pc = "prompt"
    /\ pc' = "exit"
    /\ exit_status' = 1
    /\ UNCHANGED <<cli_vars, token_vars, loop_vars, output_dir_exists,
                   http_vars, file_vars>>

\* ------------------------------------------------------------------------
\* What the server side can answer
\* ------------------------------------------------------------------------

\* Content-Disposition headers of a 200 response (None: no such header):
\*   inline
\*   attachment; filename="m.zip"
\*   attachment; filename=m.bin
\*   attachment; filename=""
\*   attachment; filename="m.zip"; size=3
ContentDispositions ==
    { None,
      <<"i","n","l","i","n","e">>,
      <<"a","t","t","a","c","h","m","e","n","t",";"," ","f","i","l","e","n","a","m","e","=","\"","m",".","z","i","p","\"">>,
      <<"a","t","t","a","c","h","m","e","n","t",";"," ","f","i","l","e","n","a","m","e","=","m",".","b","i","n">>,
      <<"a","t","t","a","c","h","m","e","n","t",";"," ","f","i","l","e","n","a","m","e","=","\"","\"">>,
      <<"a","t","t","a","c","h","m","e","n","t",";"," ","f","i","l","e","n","a","m","e","=","\"","m",".","z","i","p","\"",";"," ","s","i","z","e","=","3">> }

\* Where a 3xx response can point: the content host (with and without a
\* query, with a "/" inside the query, with a path ending in "/"), the API
\* host itself, and the API host over plain http.
RedirectTargets ==
    { Url(HTTPS, CDN_HOST, <<"/","m",".","z","i","p">>, None),
      Url(HTTPS, CDN_HOST, <<"/","d","/","m",".","b","i","n">>, <<"k","=","v">>),
      Url(HTTPS, CDN_HOST, <<"/","d","/","m",".","b","i","n">>, <<"k","=","/","v">>),
      Url(HTTPS, CDN_HOST, <<"/","d","/">>, None),
      Url(HTTPS, API_HOST, <<"/","l","o","g","i","n">>, None),
      Url(HTTP, API_HOST, <<"/","m",".","z","i","p">>, None) }

\* The body of a response of n bytes: byte k is the digit string of k, so
\* that the order of the bytes on disk can be told.
BodyOf(n) == [k \in 1..n |-> ToString(k)]

\* ------------------------------------------------------------------------
\* main: the batch loop
\* ------------------------------------------------------------------------

\* [mid.strip() for mid in args.model_id.split(',') if mid.strip()]
ModelIds(arg) ==
    LET parts == Split(arg, <<",">>)
        stripped == [k \in 1..Len(parts) |-> Strip(parts[k])]
    IN  SelectSeq(stripped, LAMBDA mid : mid # <<>>)

\* main, line 137.
SplitModelIds ==
    /\ pc = "split"
    /\ model_ids' = ModelIds(argv_model_id)
    /\ i' = 1
    /\ pc' = "loop"
    /\ UNCHANGED <<exit_status, cli_vars, token_vars, attempts, last_outcome,
                   output_dir_exists, http_vars, file_vars>>

\* The exceptions the calls of download_file raise; all derive from Exception.
ExceptionKinds == { "Exception", "ConnectionError", "OSError", "BadZipFile" }

\* "except Exception" matches every one of them.
IsException(kind) == kind \in ExceptionKinds

\* A handler that matches the HTTP error alone.
MainCatchesHttpOnly(kind) == kind = "Exception"

\* A handler that matches nothing.
MainCatchesNothing(kind) == FALSE

\* main, line 143: the handler around download_file.
MainCatches(kind) == IsException(kind)

\* An extraction without its handler.
ExtractCatchesNothing(kind) == FALSE

\* download_file, line 123: the handler around the extraction.
ExtractCatches(kind) == IsException(kind)

\* download_file returns: the for loop moves to the next model_id.
Returns ==
    /\ pc' = "loop"
    /\ i' = i + 1
    /\ last_outcome' = "returned"
    /\ exit_status' = exit_status

\* download_file raises: main's handler prints the error and the loop moves
\* on; an exception the handler does not match ends the process.
Raises(kind) ==
    IF MainCatches(kind)
    THEN /\ pc' = "loop"
         /\ i' = i + 1
         /\ last_outcome' = kind
         /\ exit_status' = exit_status
    ELSE /\ pc' = "exit"
         /\ i' = i
         /\ last_outcome' = kind
         /\ exit_status' = 1

\* The for loop is exhausted: main returns and the process exits 0.
MainReturns ==
    /\ pc = "loop"
    /\ i > Len(model_ids)
    /\ pc' = "exit"
    /\ exit_status' = 0
    /\ UNCHANGED <<cli_vars, token_vars, loop_vars, output_dir_exists,
                   http_vars, file_vars>>

\* ------------------------------------------------------------------------
\* download_file: the request and its redirects
\* ------------------------------------------------------------------------

\* requests.get(url, headers=headers, allow_redirects=True): when it follows
\* a redirect, the session drops the Authorization header if the host
\* changes or the scheme changes other than from http to https, and keeps
\* it otherwise (all urls of the model use the default ports).
should_strip_auth(old, new) ==
    IF old.host # new.host THEN TRUE
    ELSE IF old.scheme = HTTP /\ new.scheme = HTTPS THEN FALSE
    ELSE old.scheme # new.scheme

\* The Authorization a redirected request carries.
rebuild_auth(old_req, new_url) ==
    IF old_req.auth # None /\ should_strip_auth(old_req.url, new_url)
    THEN None
    ELSE old_req.auth

\* main, lines 139-142, and download_file, lines 67-75: the next model_id
\* is announced and the first request goes to the API with the token.
\* The variables of the previous download are those of a new call.
StartDownload ==
    /\ pc = "loop"
    /\ i <= Len(model_ids)
    /\ attempts' = Append(attempts, model_ids[i])
    /\ req' = [url |-> ModelUrl(model_ids[i]), auth |-> token]
    /\ hops' = 0
    /\ content_disposition' = None
    /\ r_url' = None
    /\ filename' = None
    /\ output_file' = None
    /\ total_size' = 0
    /\ body' = <<>>
    /\ f_content' = None
    /\ downloaded' = 0
    /\ writes' = 0
    /\ stream_pos' = 0
    /\ full_chunks' = TRUE
    /\ extract_status' = "none"
    /\ pc' = "request"
    /\ UNCHANGED <<exit_status, cli_vars, token_vars, model_ids, i,
                   last_outcome, output_dir_exists>>

\* The server answers 3xx: requests follows it with a rebuilt request.
FollowRedirect ==
    /\ pc = "request"
    /\ hops < MaxRedirects
    /\ \E target \in RedirectTargets :
          req' = [url |-> target, auth |-> rebuild_auth(req, target)]
    /\ hops' = hops + 1
    /\ UNCHANGED <<pc, exit_status, cli_vars, token_vars, loop_vars,
                   output_dir_exists, content_disposition, r_url, filename,
                   output_file, total_size, body, file_vars>>

\* The connection fails: requests.get raises ConnectionError.
ConnectionFails ==
    /\ pc = "request"
    /\ Raises("ConnectionError")
    /\ UNCHANGED <<cli_vars, token_vars, model_ids, attempts,
                   output_dir_exists, http_vars, file_vars>>

\* The final status is 4xx or 5xx: raise_for_status raises and line 79
\* raises Exception("HTTP Error ...") from it.
HttpError ==
    /\ pc = "request"
    /\ Raises("Exception")
    /\ UNCHANGED <<cli_vars, token_vars, model_ids, attempts,
                   output_dir_exists, http_vars, file_vars>>

\* ------------------------------------------------------------------------
\* download_file: the filename
\* ------------------------------------------------------------------------

\* Lines 82-88: the text after the first "filename=" of Content-Disposition
\* without its surrounding double quotes; when that gives nothing, what
\* follows the last "/" of the final url, up to its first "?".
ResolveFilename(cd, url) ==
    LET from_header ==
            IF Truthy(cd) /\ Contains(cd, FILENAME_EQ)
            THEN StripChars(Split(cd, FILENAME_EQ)[2], {"\""})
            ELSE None
        segments == Split(url, <<"/">>)
    IN  IF Truthy(from_header)
        THEN from_header
        ELSE Split(segments[Len(segments)], <<"?">>)[1]

\* int(r.headers.get("Content-Length", 0)); the header is <<>> when absent
\* and <<n>> when it declares n bytes.
TotalSize(content_length) ==
    IF content_length = <<>> THEN 0 ELSE content_length[1]

\* The final status is 200: lines 77-93. The request is answered: nothing is
\* on the wire any more.
ReceiveOk ==
    /\ pc = "request"
    /\ \E cd \in ContentDispositions, n \in 0..MaxBody, declared \in BOOLEAN :
          /\ content_disposition' = cd
          /\ body' = BodyOf(n)
          /\ total_size' = TotalSize(IF declared THEN <<n>> ELSE <<>>)
    /\ r_url' = UrlString(req.url)
    /\ filename' = ResolveFilename(content_disposition', r_url')
    /\ output_file' = PathJoin(output_path, filename')
    /\ req' = NoRequest
    /\ hops' = 0
    /\ pc' = "open"
    /\ UNCHANGED <<exit_status, cli_vars, token_vars, loop_vars,
                   output_dir_exists, file_vars>>

\* ------------------------------------------------------------------------
\* download_file: streaming the body to disk
\* ------------------------------------------------------------------------

\* Whether open(output_file, "wb") succeeds: the directory must exist and
\* the path must name a file (an empty filename leaves the directory itself).
CanOpen == output_dir_exists /\ filename # <<>>

\* Line 95: open(output_file, "wb") creates or truncates the file.
OpenFile ==
    /\ pc = "open"
    /\ CanOpen
    /\ f_content' = <<>>
    /\ pc' = "stream"
    /\ UNCHANGED <<exit_status, cli_vars, token_vars, loop_vars,
                   output_dir_exists, http_vars, downloaded, writes,
                   stream_pos, full_chunks, extract_status>>

\* Line 95 raises FileNotFoundError or IsADirectoryError.
OpenFails ==
    /\ pc = "open"
    /\ ~CanOpen
    /\ Raises("OSError")
    /\ UNCHANGED <<cli_vars, token_vars, model_ids, attempts,
                   output_dir_exists, http_vars, file_vars>>

\* A write at the start of the file instead of its end.
WriteAtStart(content, chunk) == chunk \o content

\* f.write(chunk)
Write(content, chunk) == content \o chunk

\* downloaded += len(chunk)
Count(n, chunk) == n + Len(chunk)

\* Lines 96-99: iter_content(chunk_size=CHUNK_SIZE) delivers the next bytes
\* of the body, at most CHUNK_SIZE of them and possibly fewer (the transport
\* decides: chunked transfer encoding and content decoding deliver what
\* they have); an empty chunk is skipped by "if chunk".
WriteChunk ==
    /\ pc = "stream"
    /\ stream_pos < Len(body)
    /\ \E n \in 0..Min(CHUNK_SIZE, Len(body) - stream_pos) :
          LET chunk == SubSeq(body, stream_pos + 1, stream_pos + n) IN
          /\ stream_pos' = stream_pos + n
          /\ IF chunk # <<>>
             THEN /\ f_content' = Write(f_content, chunk)
                  /\ downloaded' = Count(downloaded, chunk)
                  /\ writes' = writes + 1
                  /\ full_chunks' =
                        (full_chunks /\ n = Min(CHUNK_SIZE, Len(body) - stream_pos))
             ELSE UNCHANGED <<f_content, downloaded, writes, full_chunks>>
    /\ UNCHANGED <<pc, exit_status, cli_vars, token_vars, loop_vars,
                   output_dir_exists, http_vars, extract_status>>

\* The connection drops while the body streams: iter_content raises and the
\* file keeps what was written.
StreamFails ==
    /\ pc = "stream"
    /\ stream_pos < Len(body)
    /\ Raises("ConnectionError")
    /\ UNCHANGED <<cli_vars, token_vars, model_ids, attempts,
                   output_dir_exists, http_vars, file_vars>>

\* ".zip" in output_file
WantsExtractContains(path) == Contains(path, DOT_ZIP)

\* Line 118: output_file.endswith(".zip")
WantsExtract(path) == EndsWith(path, DOT_ZIP)

\* The body is exhausted: lines 111-118. Without a .zip name the call
\* returns.
StreamEnds ==
    /\ pc = "stream"
    /\ stream_pos = Len(body)
    /\ IF WantsExtract(output_file)
       THEN /\ pc' = "extract"
            /\ UNCHANGED <<exit_status, i, last_outcome>>
       ELSE Returns
    /\ UNCHANGED <<cli_vars, token_vars, model_ids, attempts,
                   output_dir_exists, http_vars, file_vars>>

\* ------------------------------------------------------------------------
\* download_file: extraction
\* ------------------------------------------------------------------------

\* Lines 121-122: the archive is opened for reading and its members are
\* extracted beside it; the archive file itself is only read.
ExtractOk ==
    /\ pc = "extract"
    /\ f_content # <<>>
    /\ extract_status' = "ok"
    /\ Returns
    /\ UNCHANGED <<cli_vars, token_vars, model_ids, attempts,
                   output_dir_exists, http_vars, f_content, downloaded,
                   writes, stream_pos, full_chunks>>

\* Lines 121-124: the file is no valid archive, ZipFile or extractall raises
\* BadZipFile; the handler prints the error and the call returns. An
\* exception the handler does not match leaves download_file.
ExtractFails ==
    /\ pc = "extract"
    /\ extract_status' = "failed"
    /\ IF ExtractCatches("BadZipFile") THEN Returns ELSE Raises("BadZipFile")
    /\ UNCHANGED <<cli_vars, token_vars, model_ids, attempts,
                   output_dir_exists, http_vars, f_content, downloaded,
                   writes, stream_pos, full_chunks>>

\* ------------------------------------------------------------------------
\* The program
\* ------------------------------------------------------------------------

Next ==
    \/ GetArgs
    \/ GetToken
    \/ PromptOk
    \/ PromptFails
    \/ SplitModelIds
    \/ StartDownload
    \/ FollowRedirect
    \/ ConnectionFails
    \/ HttpError
    \/ ReceiveOk
    \/ OpenFile
    \/ OpenFails
    \/ WriteChunk
    \/ StreamFails
    \/ StreamEnds
    \/ ExtractOk
    \/ ExtractFails
    \/ MainReturns

Spec == Init /\ [][Next]_vars

\* ------------------------------------------------------------------------
\* Vocabulary of the properties
\* ------------------------------------------------------------------------

\* A download_file call is in progress.
InDownload == pc \in {"request", "open", "stream", "extract"}

\* The last download_file call raised.
Raised == last_outcome \in ExceptionKinds

\* The last download_file call streamed its whole body: it is about to
\* extract, or it has returned.
StreamComplete ==
    \/ pc = "extract"
    \/ pc \in {"loop", "exit"} /\ last_outcome = "returned"

\* Argument parsing succeeded and main holds a token: get_token found one, or
\* the prompt stored one.
TokenObtained ==
    /\ get_token_calls = 1
    /\ Truthy(got) \/ token_writes = 1

\* The fields of a comma-separated list, read character by character.
RECURSIVE Fields(_, _, _)
Fields(s, cur, acc) ==
    IF s = <<>> THEN Append(acc, cur)
    ELSE IF Head(s) = "," THEN Fields(Tail(s), <<>>, Append(acc, cur))
    ELSE Fields(Tail(s), Append(cur, Head(s)), acc)

\* A field without its leading and trailing whitespace.
Trimmed(f) ==
    LET solid == {k \in 1..Len(f) : f[k] \notin WHITESPACE} IN
    IF solid = {} THEN <<>>
    ELSE SubSeq(f, CHOOSE a \in solid : \A k \in solid : a <= k,
                   CHOOSE b \in solid : \A k \in solid : k <= b)

\* The non-empty trimmed identifiers of the model_id argument, in order.
GivenIds ==
    LET fs == Fields(argv_model_id, <<>>, <<>>)
    IN  SelectSeq([k \in 1..Len(fs) |-> Trimmed(fs[k])], LAMBDA f : f # <<>>)

IsPrefix(s, t) == Len(s) <= Len(t) /\ s = SubSeq(t, 1, Len(s))

\* ------------------------------------------------------------------------
\* C1
\* ------------------------------------------------------------------------

\* C1: download_file is attempted exactly once for each non-empty trimmed
\* identifier, in the order given, one call at a time; whatever error a
\* call raises, the later identifiers are still attempted: the calls made so
\* far are a prefix of the given identifiers, the loop stands at the call in
\* progress (or just past the last finished one), and the process ends only
\* after every identifier was attempted.
C1_EachIdAttemptedOnceInOrder ==
    /\ IsPrefix(attempts, GivenIds)
    /\ InDownload => Len(attempts) = i
    /\ pc = "loop" => Len(attempts) = i - 1
    /\ (pc = "exit" /\ (exit_status = 0 \/ attempts # <<>>)) => attempts = GivenIds

\* Three identifiers were given, the second call raised the HTTP error and the
\* third call is in progress.
C1_Witness ==
    /\ Len(GivenIds) = 3
    /\ pc = "request"
    /\ i = 3
    /\ last_outcome = "Exception"

\* ------------------------------------------------------------------------
\* C2
\* ------------------------------------------------------------------------

\* C2: once the arguments are parsed and a token is held, main cannot stop
\* anywhere but at its normal end, and its exit status there is 0, whatever the
\* downloads did.
C2_ExitsZero ==
    TokenObtained =>
        /\ pc = "exit" => exit_status = 0
        /\ pc # "exit" => ENABLED Next

\* The only download of the batch failed and the process ended.
C2_Witness ==
    /\ pc = "exit"
    /\ Len(model_ids) = 1
    /\ Len(attempts) = 1
    /\ Raised
    /\ exit_status = 0

\* ------------------------------------------------------------------------
\* C3
\* ------------------------------------------------------------------------

\* t is f without leading and trailing whitespace: t starts and ends with a
\* solid character (or is empty) and f is whitespace, t, whitespace.
IsStrippedOf(t, f) ==
    /\ t # None
    /\ t = <<>> \/ (t[1] \notin WHITESPACE /\ t[Len(t)] \notin WHITESPACE)
    /\ \E a \in 0..Len(f) :
          /\ a + Len(t) <= Len(f)
          /\ SubSeq(f, a + 1, a + Len(t)) = t
          /\ \A k \in 1..Len(f) :
                (k <= a \/ k > a + Len(t)) => f[k] \in WHITESPACE

\* C3: a non-empty environment variable wins over the token file; otherwise a
\* readable file gives its stripped content; otherwise get_token gives None
\* and main goes on (it did not raise); main prompts exactly when get_token
\* gave None or an empty string, and then holds what the prompt returned.
C3_TokenPrecedence ==
    /\ (get_token_calls = 1 /\ token_writes = 0) =>
          /\ Truthy(env_token) => got = env_token
          /\ (~Truthy(env_token) /\ token_file # None) =>
                IsStrippedOf(got, token_file)
          /\ (~Truthy(env_token) /\ token_file = None) => got = None
          /\ ~Truthy(got) => (pc = "prompt" \/ (pc = "exit" /\ exit_status = 1))
          /\ Truthy(got) => (pc # "prompt" /\ token = got)
    /\ pc = "prompt" => (get_token_calls = 1 /\ ~Truthy(got))
    /\ token_writes = 1 =>
          (~Truthy(got) /\ token \in PromptInputs /\ token_file = token)

\* The environment variable and the token file both hold a token, and
\* get_token has returned.
C3_Witness ==
    /\ pc = "split"
    /\ Truthy(env_token)
    /\ token_file # None
    /\ Truthy(Strip(token_file))
    /\ token_file # env_token
    /\ token = env_token

\* ------------------------------------------------------------------------
\* C4
\* ------------------------------------------------------------------------

\* C4: the token travels only on the first request, the one to the API url;
\* no request that follows a redirect carries an Authorization header.
C4_TokenOnlyOnFirstHop ==
    pc = "request" =>
        /\ hops = 0 => (req.url = ModelUrl(model_ids[i]) /\ req.auth = token)
        /\ hops > 0 => req.auth = None

\* ------------------------------------------------------------------------
\* C5
\* ------------------------------------------------------------------------

\* C5: once a download is attempted the output directory exists, so the
\* directory exists whenever download_file opens the destination file.
C5_OutputDirExists ==
    /\ attempts # <<>> => output_dir_exists
    /\ pc = "open" => output_dir_exists

\* ------------------------------------------------------------------------
\* C6
\* ------------------------------------------------------------------------

\* The parameters of a header value: its ";"-separated parts after the first,
\* without the blanks around them.
HeaderParams(cd) ==
    LET parts == Split(cd, <<";">>)
    IN  [k \in 1..(Len(parts) - 1) |-> StripChars(parts[k + 1], {" "})]

\* A parameter value without the double quotes around it, if it is quoted.
Unquoted(v) ==
    IF Len(v) >= 2 /\ v[1] = "\"" /\ v[Len(v)] = "\""
    THEN SubSeq(v, 2, Len(v) - 1)
    ELSE v

\* The value of the filename= parameter of a Content-Disposition header;
\* None when the header is absent or has no such parameter.
FilenameParam(cd) ==
    IF cd = None THEN None
    ELSE LET ps == HeaderParams(cd)
             named == {k \in 1..Len(ps) : MatchesAt(ps[k], FILENAME_EQ, 1)}
         IN  IF named = {} THEN None
             ELSE LET k == CHOOSE k \in named : \A j \in named : k <= j
                  IN  Unquoted(Tail_(ps[k], Len(FILENAME_EQ) + 1))

\* The last path segment of a url, its query string removed first.
LastPathSegment(url) ==
    LET segments == Split(Split(url, <<"?">>)[1], <<"/">>)
    IN  segments[Len(segments)]

\* C6: the filename is the value of the filename= parameter whenever the
\* header has one that is not empty, whatever else the header and the url
\* hold; otherwise it is the last path segment of the final url without its
\* query string.
C6_FilenameResolution ==
    pc = "open" =>
        filename = (IF Truthy(FilenameParam(content_disposition))
                    THEN FilenameParam(content_disposition)
                    ELSE LastPathSegment(r_url))

\* ------------------------------------------------------------------------
\* C7
\* ------------------------------------------------------------------------

\* ceil(a / b)
CeilDiv(a, b) == (a + b - 1) \div b

\* The file holds the bytes written so far, a prefix of the body, and the
\* counter is their number; with the body exhausted the file is the body.
StreamedFaithfully ==
    /\ pc \in {"stream", "extract"} =>
          /\ f_content # None
          /\ downloaded = Len(f_content)
          /\ writes <= downloaded
          /\ IsPrefix(f_content, body)
    /\ StreamComplete =>
          /\ f_content = body
          /\ downloaded = Len(body)

NameEndsInZip(name) ==
    LET n == Len(name) IN
    /\ name # None
    /\ n >= 4
    /\ name[n - 3] = "."
    /\ name[n - 2] = "z"
    /\ name[n - 1] = "i"
    /\ name[n] = "p"

\* C9: a completed download is extracted exactly when its filename ends in
\* .zip; a file with another name is never extracted; and under an
\* invocation that carries --no-extract nothing is ever extracted (the
\* parser rejects the invocation, so nothing is downloaded either).
C9_ExtractIffZip ==
    /\ argv_no_extract => (extract_status = "none" /\ ~InDownload)
    /\ (pc = "extract" \/ extract_status # "none") => NameEndsInZip(filename)
    /\ (pc \in {"loop", "exit"} /\ last_outcome = "returned") =>
          (extract_status # "none" <=> NameEndsInZip(filename))

\* A download named by its Content-Disposition header was extracted.
C9_Witness ==
    /\ extract_status = "ok"
    /\ last_outcome = "returned"
    /\ NameEndsInZip(filename)
    /\ Truthy(content_disposition)

\* ------------------------------------------------------------------------
\* C10
\* ------------------------------------------------------------------------

\* In every state: get_token is called at most once and before any download,
\* the file is written at most once and only after get_token found nothing,
\* and the first request of every download carries main's token.
TokenResolvedOnce ==
    /\ get_token_calls <= 1
    /\ token_writes <= 1
    /\ token_writes = 1 => (get_token_calls = 1 /\ ~Truthy(got))
    /\ attempts # <<>> => get_token_calls = 1
    /\ (pc = "request" /\ hops = 0) => req.auth = token

\* In every step: nothing changes the token or the token file once a download
\* has started, the token is not resolved again, and the get_token step
\* leaves the file alone.
TokenStableInBatch ==
    /\ attempts' # <<>> =>
          /\ token' = token
          /\ token_file' = token_file
          /\ token_writes' = token_writes
          /\ get_token_calls' = get_token_calls
    /\ get_token_calls' # get_token_calls => token_file' = token_file

\* C10: the token is resolved once, before the first download, and every
\* download uses it; the token file is written at most once, only when
\* neither the environment nor the file gave a token, and before any
\* download; from the first download on it is never modified; get_token
\* never modifies it.
C10_TokenResolvedOnceFileWrittenOnce ==
    []TokenResolvedOnce /\ [][TokenStableInBatch]_vars

\* The prompt stored the token and the second download of the batch runs.
C10_Witness ==
    /\ token_writes = 1
    /\ token_file = token
    /\ Len(attempts) = 2
    /\ InDownload

====
